---------------------------- MODULE Spec2Model ----------------------------
(***************************************************************************)
(* PageRank (src/pagerank/pagerank.py) and the tic-tac-toe move function   *)
(* (src/tictactoe/tictactoe.py).                                           *)
(*                                                                         *)
(* Arithmetic is exact.  A transition_model probability is a reduced       *)
(* fraction <<numerator, denominator>>.  A rank table of iterate_pagerank  *)
(* is a record [num, den]: the rank of page p is num[p] / den, where the   *)
(* numerators and the common denominator are unbounded naturals written as *)
(* sequences of base-10000 limbs, least significant limb first.            *)
(***************************************************************************)
EXTENDS Integers, Sequences, FiniteSets, TLC

VARIABLES
    corpus,        \* the corpus object shared by the estimators: page -> set of pages
    orig,          \* the corpus as crawl() built it
    damping,       \* damping_factor as a fraction <<numerator, denominator>>
    runs,          \* calls of iterate_pagerank on the corpus object so far: 0, 1, 2 for more
    pc,            \* "idle", "sample" (in the for loop), "iterate" (in the while loop)
    callee,        \* the estimator called last: "none", "sample", "iterate"
    outcome,       \* how the last call ended: "none", "returned", "ValueError", "IndexError"
    result,        \* the table the last call returned
    n,             \* sample_pagerank: the sample count
    visits,        \* sample_pagerank: visits recorded so far
    page_counts,   \* sample_pagerank: page -> visit count
    current_page,  \* sample_pagerank: the surfer's page
    distribution,  \* sample_pagerank: the last transition_model result
    ranks,         \* iterate_pagerank: the rank table (the local named iterate_pagerank)
    iters,         \* iterate_pagerank: iterations of the while loop performed
    board,         \* tic-tac-toe: the caller's board
    t_input,       \* tic-tac-toe: the board the last result() call was given
    t_action,      \* tic-tac-toe: the action of the last result() call
    t_outcome,     \* tic-tac-toe: "none", "ok", "ValueError", "IndexError"
    t_result       \* tic-tac-toe: the board the last result() call returned

pvars == <<corpus, orig, damping, runs, pc, callee, outcome, result,
           n, visits, page_counts, current_page, distribution, ranks, iters>>
tvars == <<board, t_input, t_action, t_outcome, t_result>>
vars == <<pvars, tvars>>

(***************************************************************************)
(* Bounds of the model.                                                    *)
(***************************************************************************)
MaxPages == 2      \* pages of a corpus
MaxSamples == 3    \* sample counts n range over 0 .. MaxSamples
MaxIter == 45      \* cap on the iterations of the convergence loop
MaxIdx == 4        \* row and column indices range over -1 .. MaxIdx

(***************************************************************************)
(* Fractions with small terms.                                             *)
(***************************************************************************)
RECURSIVE GCD(_, _)
GCD(a, b) == IF b = 0 THEN a ELSE GCD(b, a % b)

LCM(a, b) == (a * b) \div GCD(a, b)

Frac(a, b) == LET g == GCD(a, b) IN <<a \div g, b \div g>>

FracAdd(x, y) == Frac(x[1] * y[2] + y[1] * x[2], x[2] * y[2])

FracSub(x, y) == Frac(x[1] * y[2] - y[1] * x[2], x[2] * y[2])

FracDivInt(x, k) == Frac(x[1], x[2] * k)

FracLess(x, y) == x[1] * y[2] < y[1] * x[2]

RECURSIVE FracSum(_, _)
FracSum(f, S) ==
    IF S = {} THEN <<0, 1>>
    ELSE LET p == CHOOSE q \in S : TRUE
         IN FracAdd(f[p], FracSum(f, S \ {p}))

One == <<1, 1>>

(***************************************************************************)
(* Unbounded naturals: sequences of limbs in 0 .. 9999, least significant  *)
(* first, without a leading zero limb; zero is the empty sequence.         *)
(***************************************************************************)
Limb(a, i) == IF i <= Len(a) THEN a[i] ELSE 0

RECURSIVE BigTrim(_)
BigTrim(a) ==
    IF a # <<>> /\ a[Len(a)] = 0 THEN BigTrim(SubSeq(a, 1, Len(a) - 1)) ELSE a

RECURSIVE BigOf(_)
BigOf(k) == IF k = 0 THEN <<>> ELSE <<k % 10000>> \o BigOf(k \div 10000)

RECURSIVE BigAddFrom(_, _, _, _)
BigAddFrom(a, b, i, carry) ==
    IF i > Len(a) /\ i > Len(b)
    THEN BigOf(carry)
    ELSE LET s == Limb(a, i) + Limb(b, i) + carry
         IN <<s % 10000>> \o BigAddFrom(a, b, i + 1, s \div 10000)

BigAdd(a, b) == BigAddFrom(a, b, 1, 0)

\* a - b for a >= b
RECURSIVE BigSubFrom(_, _, _, _)
BigSubFrom(a, b, i, borrow) ==
    IF i > Len(a)
    THEN <<>>
    ELSE LET s == Limb(a, i) - Limb(b, i) - borrow
         IN IF s < 0
            THEN <<s + 10000>> \o BigSubFrom(a, b, i + 1, 1)
            ELSE <<s>> \o BigSubFrom(a, b, i + 1, 0)

BigSub(a, b) == BigTrim(BigSubFrom(a, b, 1, 0))

\* a * k for a small natural k
RECURSIVE BigMulFrom(_, _, _, _)
BigMulFrom(a, k, i, carry) ==
    IF i > Len(a)
    THEN BigOf(carry)
    ELSE LET s == a[i] * k + carry
         IN <<s % 10000>> \o BigMulFrom(a, k, i + 1, s \div 10000)

BigMul(a, k) == BigTrim(BigMulFrom(a, k, 1, 0))

RECURSIVE BigLessFrom(_, _, _)
BigLessFrom(a, b, i) ==
    IF i = 0 THEN FALSE
    ELSE IF a[i] # b[i] THEN a[i] < b[i]
    ELSE BigLessFrom(a, b, i - 1)

BigLess(a, b) ==
    IF Len(a) # Len(b) THEN Len(a) < Len(b) ELSE BigLessFrom(a, b, Len(a))

BigAbsDiff(a, b) == IF BigLess(a, b) THEN BigSub(b, a) ELSE BigSub(a, b)

RECURSIVE BigSum(_, _)
BigSum(f, S) ==
    IF S = {} THEN <<>>
    ELSE LET p == CHOOSE q \in S : TRUE
         IN BigAdd(f[p], BigSum(f, S \ {p}))


(***************************************************************************)
(* pagerank.py                                                             *)
(***************************************************************************)
DAMPING == <<17, 20>>

\* 0.001, the convergence threshold, as 1 / ThresholdDen
ThresholdDen == 1000

\* damping factors the estimators are called with
Dampings == {<<1, 250>>, <<1, 2>>, DAMPING}

Pages(c) == DOMAIN c

\* the corpora crawl() builds: links to other pages of the corpus only
CrawlCorpora ==
    UNION {{c \in [1 .. k -> SUBSET (1 .. k)] : \A p \in 1 .. k : p \notin c[p]}
           : k \in 0 .. MaxPages}

NoTable == <<>>

\* transition_model with d / total_pages as the share of a link
transition_model_link_share(c, page, d) ==
    IF page \notin Pages(c)
    THEN "ValueError"
    ELSE LET total_pages == Cardinality(Pages(c))
             links == c[page]
             total_links == Cardinality(links)
         IN IF total_links > 0
            THEN [p \in Pages(c) |->
                    IF p \in links
                    THEN FracAdd(FracDivInt(FracSub(One, d), total_pages),
                                 FracDivInt(d, total_pages))
                    ELSE FracDivInt(FracSub(One, d), total_pages)]
            ELSE [p \in Pages(c) |-> Frac(1, total_pages)]

\* transition_model with the base probability (1 - d) / N on a dead end too
transition_model_dead_end(c, page, d) ==
    IF page \notin Pages(c)
    THEN "ValueError"
    ELSE LET total_pages == Cardinality(Pages(c))
             links == c[page]
             total_links == Cardinality(links)
         IN [p \in Pages(c) |->
                IF p \in links
                THEN FracAdd(FracDivInt(FracSub(One, d), total_pages),
                             FracDivInt(d, total_links))
                ELSE FracDivInt(FracSub(One, d), total_pages)]

transition_model(c, page, d) ==
    IF page \notin Pages(c)
    THEN "ValueError"
    ELSE LET total_pages == Cardinality(Pages(c))
             links == c[page]
             total_links == Cardinality(links)
         IN IF total_links > 0
            THEN [p \in Pages(c) |->
                    IF p \in links
                    THEN FracAdd(FracDivInt(FracSub(One, d), total_pages),
                                 FracDivInt(d, total_links))
                    ELSE FracDivInt(FracSub(One, d), total_pages)]
            ELSE [p \in Pages(c) |-> Frac(1, total_pages)]

\* random.choices(pages, weights=probs): a page of positive weight
Choices(dist) == {p \in DOMAIN dist : FracLess(<<0, 1>>, dist[p])}

\* page_counts[page] = 1 in place of += 1
Visit_assign(counts, page) == [counts EXCEPT ![page] = 1]

\* page_counts[page] += 1
Visit(counts, page) == [counts EXCEPT ![page] = @ + 1]

\* {page: count / n for page, count in page_counts.items()}
PageRanks(counts, k) == [page \in DOMAIN counts |-> Frac(counts[page], k)]

\* iterate_pagerank without the dead-end loop
Normalize_skipped(c) == c

\* the dead-end loop linking a dead end to the other pages only
Normalize_others(c) ==
    [p \in Pages(c) |->
        IF Cardinality(c[p]) = 0 THEN c[p] \cup (Pages(c) \ {p}) ELSE c[p]]

\* the dead-end loop of iterate_pagerank
Normalize(c) ==
    [p \in Pages(c) |-> IF Cardinality(c[p]) = 0 THEN c[p] \cup Pages(c) ELSE c[p]]

\* {page: 1 / len(corpus) for page in corpus}
InitialRanks(c) ==
    [num |-> [p \in Pages(c) |-> BigOf(1)], den |-> BigOf(Cardinality(Pages(c)))]

RECURSIVE LcmOf(_)
LcmOf(S) ==
    IF S = {} THEN 1
    ELSE LET k == CHOOSE j \in S : TRUE IN LCM(k, LcmOf(S \ {k}))

\* least common multiple of the out-link counts that the recurrence divides by
LinkLcm(c) == LcmOf({Cardinality(c[q]) : q \in Pages(c)} \ {0})

\* new denominator / old denominator of one application of the recurrence
Scale(c, d) == d[2] * Cardinality(Pages(c)) * LinkLcm(c)

\* rank_sum for page, over the denominator r.den * LinkLcm(c)
RECURSIVE RankSum(_, _, _, _)
RankSum(c, r, page, S) ==
    IF S = {} THEN <<>>
    ELSE LET linked_page == CHOOSE q \in S : TRUE
             rest == RankSum(c, r, page, S \ {linked_page})
         IN IF page \in c[linked_page]
            THEN BigAdd(rest, BigMul(r.num[linked_page],
                                     LinkLcm(c) \div Cardinality(c[linked_page])))
            ELSE rest

\* new_ranks: (1 - d) / total_pages + d * rank_sum, over r.den * Scale(c, d)
NewRanks(c, r, d) ==
    [num |-> [page \in Pages(c) |->
                BigAdd(BigMul(r.den, (d[2] - d[1]) * LinkLcm(c)),
                       BigMul(RankSum(c, r, page, Pages(c)),
                              d[1] * Cardinality(Pages(c))))],
     den |-> BigMul(r.den, Scale(c, d))]

\* the convergence test with <= 0.001
Close_or_equal(c, r, nr, d, page) ==
    ~BigLess(nr.den,
             BigMul(BigAbsDiff(nr.num[page], BigMul(r.num[page], Scale(c, d))),
                    ThresholdDen))

\* the convergence test with > 0.001
Close_reversed(c, r, nr, d, page) ==
    BigLess(nr.den,
            BigMul(BigAbsDiff(nr.num[page], BigMul(r.num[page], Scale(c, d))),
                   ThresholdDen))

\* abs(new_ranks[page] - iterate_pagerank[page]) < 0.001
Close(c, r, nr, d, page) ==
    BigLess(BigMul(BigAbsDiff(nr.num[page], BigMul(r.num[page], Scale(c, d))),
                   ThresholdDen),
            nr.den)

Converged(c, r, nr, d) == \A page \in Pages(c) : Close(c, r, nr, d, page)

PInit ==
    /\ orig \in CrawlCorpora
    /\ corpus = orig
    /\ damping \in Dampings
    /\ runs = 0
    /\ pc = "idle"
    /\ callee = "none"
    /\ outcome = "none"
    /\ result = NoTable
    /\ n = 0
    /\ visits = 0
    /\ page_counts = NoTable
    /\ current_page = 0
    /\ distribution = NoTable
    /\ ranks = NoTable
    /\ iters = 0

SampleLocalsCleared ==
    /\ n' = 0
    /\ visits' = 0
    /\ page_counts' = NoTable
    /\ current_page' = 0
    /\ distribution' = NoTable

\* sample_pagerank up to the for loop
CallSample ==
    /\ pc = "idle"
    /\ \E k \in 0 .. MaxSamples :
        /\ n' = k
        /\ callee' = "sample"
        /\ result' = NoTable
        /\ distribution' = NoTable
        /\ ranks' = NoTable
        /\ iters' = 0
        /\ IF k <= 0
           THEN /\ outcome' = "ValueError"
                /\ pc' = "idle"
                /\ page_counts' = NoTable
                /\ current_page' = 0
                /\ visits' = 0
           ELSE IF Pages(corpus) = {}
           THEN /\ outcome' = "IndexError"
                /\ pc' = "idle"
                /\ page_counts' = [page \in Pages(corpus) |-> 0]
                /\ current_page' = 0
                /\ visits' = 0
           ELSE /\ outcome' = "none"
                /\ pc' = "sample"
                /\ \E start \in Pages(corpus) :
                    /\ current_page' = start
                    /\ page_counts' = Visit([page \in Pages(corpus) |-> 0], start)
                /\ visits' = 1
    /\ UNCHANGED <<corpus, orig, damping, runs, tvars>>

\* one pass of the for loop
SampleStep ==
    /\ pc = "sample"
    /\ visits < n
    /\ LET dist == transition_model(corpus, current_page, damping)
       IN /\ distribution' = dist
          /\ \E next \in Choices(dist) :
                /\ current_page' = next
                /\ page_counts' = Visit(page_counts, next)
    /\ visits' = visits + 1
    /\ UNCHANGED <<corpus, orig, damping, runs, pc, callee, outcome, result,
                   n, ranks, iters, tvars>>

\* the for loop is over: normalize the counts and return
SampleReturn ==
    /\ pc = "sample"
    /\ visits = n
    /\ result' = PageRanks(page_counts, n)
    /\ outcome' = "returned"
    /\ pc' = "idle"
    /\ UNCHANGED <<corpus, orig, damping, runs, callee, n, visits, page_counts,
                   current_page, distribution, ranks, iters, tvars>>

\* iterate_pagerank up to the while loop
CallIterate ==
    /\ pc = "idle"
    /\ ranks' = InitialRanks(corpus)
    /\ corpus' = Normalize(corpus)
    /\ runs' = IF runs < 2 THEN runs + 1 ELSE runs
    /\ iters' = 0
    /\ callee' = "iterate"
    /\ outcome' = "none"
    /\ result' = NoTable
    /\ pc' = "iterate"
    /\ SampleLocalsCleared
    /\ UNCHANGED <<orig, damping, tvars>>

\* one pass of the while loop; the call returns when the pass converged
IterateStep ==
    /\ pc = "iterate"
    /\ iters < MaxIter
    /\ LET new_ranks == NewRanks(corpus, ranks, damping)
       IN /\ ranks' = new_ranks
          /\ IF Converged(corpus, ranks, new_ranks, damping)
             THEN /\ pc' = "idle"
                  /\ outcome' = "returned"
                  /\ result' = new_ranks
             ELSE UNCHANGED <<pc, outcome, result>>
    /\ iters' = iters + 1
    /\ UNCHANGED <<corpus, orig, damping, runs, callee, n, visits, page_counts,
                   current_page, distribution, tvars>>

(***************************************************************************)
(* tictactoe.py                                                            *)
(***************************************************************************)
X == "X"
O == "O"
EMPTY == "None"

initial_state == [i \in 0 .. 2 |-> [j \in 0 .. 2 |-> EMPTY]]

\* len() of a list indexed from 0
ListLen(l) == Cardinality(DOMAIN l)

Cells(b) == UNION {{<<i, j>> : j \in DOMAIN b[i]} : i \in DOMAIN b}

player(b) ==
    LET x == Cardinality({cell \in Cells(b) : b[cell[1]][cell[2]] = X})
        o == Cardinality({cell \in Cells(b) : b[cell[1]][cell[2]] = O})
    IN IF x = 0 /\ o = 0 THEN X
       ELSE IF x > o THEN O
       ELSE X

actions(b) == {cell \in Cells(b) : b[cell[1]][cell[2]] = EMPTY}

\* check_streak of winner(), for a cell that is not EMPTY
check_streak(b, row, col) ==
    LET current_player == b[row][col]
        w == 3
    IN IF \A i \in 0 .. w - 1 :
             col + i < ListLen(b[row]) /\ b[row][col + i] = current_player
       THEN current_player
       ELSE IF \A i \in 0 .. w - 1 :
             row + i < ListLen(b) /\ b[row + i][col] = current_player
       THEN current_player
       ELSE IF /\ row + w <= ListLen(b)
               /\ col + w <= ListLen(b[row])
               /\ \A i \in 0 .. w - 1 : b[row + i][col + i] = current_player
       THEN current_player
       ELSE IF /\ row + w <= ListLen(b)
               /\ col - w >= -1
               /\ \A i \in 0 .. w - 1 : b[row + i][col - i] = current_player
       THEN current_player
       ELSE "None"

winner(b) ==
    LET streaks == {cell \in Cells(b) :
                      /\ b[cell[1]][cell[2]] # EMPTY
                      /\ check_streak(b, cell[1], cell[2]) # "None"}
    IN IF streaks = {} THEN "None"
       ELSE LET first == CHOOSE cell \in streaks :
                    \A other \in streaks :
                        \/ cell[1] < other[1]
                        \/ (cell[1] = other[1] /\ cell[2] <= other[2])
            IN check_streak(b, first[1], first[2])

terminal(b) == actions(b) = {} \/ winner(b) # "None"

\* how result(b, <<row, col>>) ends: the checks of result() in evaluation order
result_outcome(b, row, col) ==
    IF ~(0 <= row /\ row <= ListLen(b)) THEN "ValueError"
    ELSE IF ~(0 <= col) THEN "ValueError"
    ELSE IF row \notin DOMAIN b THEN "IndexError"
    ELSE IF ~(col <= ListLen(b[row])) THEN "ValueError"
    ELSE IF col \notin DOMAIN b[row] THEN "IndexError"
    ELSE IF b[row][col] # EMPTY THEN "ValueError"
    ELSE "ok"

\* the board result() builds when no check fails
new_board(b, row, col) == [b EXCEPT ![row][col] = player(b)]

\* the caller's board after result(b, action): result() works on a copy
board_after_result(b, row, col) == b

TInit ==
    /\ board = initial_state
    /\ t_input = <<>>
    /\ t_action = <<>>
    /\ t_outcome = "none"
    /\ t_result = <<>>

PIdle ==
    /\ orig = <<>>
    /\ corpus = <<>>
    /\ damping = DAMPING
    /\ runs = 0
    /\ pc = "idle"
    /\ callee = "none"
    /\ outcome = "none"
    /\ result = NoTable
    /\ n = 0
    /\ visits = 0
    /\ page_counts = NoTable
    /\ current_page = 0
    /\ distribution = NoTable
    /\ ranks = NoTable
    /\ iters = 0

\* a call result(board, <<row, col>>)
ResultCall ==
    /\ \E row \in -1 .. MaxIdx, col \in -1 .. MaxIdx :
        /\ t_input' = board
        /\ t_action' = <<row, col>>
        /\ t_outcome' = result_outcome(board, row, col)
        /\ IF result_outcome(board, row, col) = "ok"
           THEN /\ t_result' = new_board(board, row, col)
                /\ board' = board_after_result(board, row, col)
           ELSE /\ t_result' = <<>>
                /\ board' = board
    /\ UNCHANGED pvars

\* the caller goes on with the board result() returned, as minimax does
Play ==
    /\ t_outcome = "ok"
    /\ ~terminal(board)
    /\ board' = t_result
    /\ t_input' = <<>>
    /\ t_action' = <<>>
    /\ t_outcome' = "none"
    /\ t_result' = <<>>
    /\ UNCHANGED pvars

TIdle ==
    /\ board = <<>>
    /\ t_input = <<>>
    /\ t_action = <<>>
    /\ t_outcome = "none"
    /\ t_result = <<>>

Init == PInit /\ TIdle

Next == CallSample \/ SampleStep \/ SampleReturn \/ CallIterate \/ IterateStep

Spec == Init /\ [][Next]_vars

\* a pass of the while loop, by its effect on the pass counter: IterateStep is
\* enabled exactly when pc = "iterate" /\ iters < MaxIter, and it is the only step
\* of Next that is a LoopPass step
LoopPass ==
    /\ pc = "iterate"
    /\ iters < MaxIter
    /\ iters' = iters + 1

\* the while loop keeps running: the program is single-threaded and never suspends
LiveSpec == Spec /\ WF_iters(LoopPass)

TNext == ResultCall \/ Play

TGame == PIdle /\ TInit

TSpec == TGame /\ [][TNext]_vars


(***************************************************************************)
(* Properties.                                                             *)
(***************************************************************************)
RECURSIVE IntSum(_, _)
IntSum(f, S) ==
    IF S = {} THEN 0
    ELSE LET p == CHOOSE q \in S : TRUE IN f[p] + IntSum(f, S \ {p})

\* the fraction v has the value a / b
IsFrac(v, a, b) == v[1] * b = a * v[2]

\* C1: on every corpus the program reaches (out-link targets all corpus pages)
\* and for every page p of it, transition_model has one entry per page, whose
\* value is (1-d)/N + d/L for a page p links to and (1-d)/N for any other page
\* when p has L > 0 out-links, and 1/N when p has none; the entries sum to 1.
C1_TransitionModel ==
    \A p \in Pages(corpus) :
        LET dist == transition_model(corpus, p, damping)
            N == Cardinality(Pages(corpus))
            L == Cardinality(corpus[p])
            dn == damping[1]
            dd == damping[2]
        IN /\ DOMAIN dist = Pages(corpus)
           /\ \A q \in Pages(corpus) :
                IF L > 0
                THEN IF q \in corpus[p]
                     THEN IsFrac(dist[q], (dd - dn) * L + dn * N, dd * N * L)
                     ELSE IsFrac(dist[q], dd - dn, dd * N)
                ELSE IsFrac(dist[q], 1, N)
           /\ FracSum(dist, Pages(corpus)) = One

\* the sampler has stepped from a page with links on a corpus that also has a
\* dead end and a page that is not linked to
C1_Witness ==
    /\ pc = "sample"
    /\ distribution # NoTable
    /\ \E p, q \in Pages(corpus) :
        /\ corpus[p] = {}
        /\ corpus[q] # {}
        /\ corpus[q] # Pages(corpus)

\* C2: on a non-empty corpus the rank table of iterate_pagerank has one entry per
\* page and sums to 1 after initialisation and after every iteration, and so does
\* the table that is returned.
C2_RanksSumToOne ==
    (callee = "iterate" /\ Pages(corpus) # {}) =>
        /\ DOMAIN ranks.num = Pages(corpus)
        /\ ranks.den # <<>>
        /\ BigSum(ranks.num, Pages(corpus)) = ranks.den
        /\ outcome = "returned" =>
            /\ DOMAIN result.num = Pages(corpus)
            /\ result.den # <<>>
            /\ BigSum(result.num, Pages(corpus)) = result.den

\* iterate_pagerank returned after several iterations on a corpus with a dead end
C2_Witness ==
    /\ callee = "iterate"
    /\ outcome = "returned"
    /\ iters >= 3
    /\ \E p \in Pages(orig) : orig[p] = {}
    /\ \E p \in Pages(orig) : orig[p] # {}

\* C3: on a non-empty corpus and for n >= 1, after k recorded visits the counts of
\* sample_pagerank total k and the surfer is on a corpus page; the call returns
\* after exactly n visits a table with one entry per page, each the page's count
\* divided by n, each in [0, 1], summing to 1.
C3_SampleCounts ==
    (callee = "sample" /\ Pages(corpus) # {} /\ n >= 1) =>
        /\ DOMAIN page_counts = Pages(corpus)
        /\ current_page \in Pages(corpus)
        /\ visits \in 1 .. n
        /\ IntSum(page_counts, Pages(corpus)) = visits
        /\ outcome \in {"none", "returned"}
        /\ pc = "idle" => outcome = "returned"
        /\ outcome = "returned" =>
            /\ visits = n
            /\ DOMAIN result = Pages(corpus)
            /\ \A p \in Pages(corpus) :
                /\ IsFrac(result[p], page_counts[p], n)
                /\ 0 <= result[p][1]
                /\ result[p][1] <= result[p][2]
            /\ FracSum(result, Pages(corpus)) = One

\* sample_pagerank returned after MaxSamples visits, one page visited twice
C3_Witness ==
    /\ callee = "sample"
    /\ outcome = "returned"
    /\ n = MaxSamples
    /\ \E p, q \in Pages(corpus) :
        /\ p # q
        /\ page_counts[p] >= 2
        /\ page_counts[q] >= 1

\* C4: the convergence loop of iterate_pagerank ends: a call that is in the loop
\* eventually returns, and the loop is never held up by the model's iteration cap.
C4_Terminates ==
    /\ [](pc = "iterate" => iters < MaxIter)
    /\ (pc = "iterate") ~> (pc = "idle" /\ callee = "iterate" /\ outcome = "returned")

\* iterate_pagerank returned after at least five iterations
C4_Witness ==
    /\ pc = "idle"
    /\ callee = "iterate"
    /\ outcome = "returned"
    /\ Pages(corpus) # {}
    /\ iters >= 5

\* C5: whatever calls came before, the out-link sets a sample_pagerank call reads
\* are those of the corpus as it was built.
C5_SamplerReadsOriginal ==
    callee = "sample" => corpus = orig

\* C6: called with an empty corpus, an estimator ends in an error and returns no
\* rank table.
C6_EmptyCorpusIsError ==
    (Pages(orig) = {} /\ callee # "none" /\ pc = "idle") =>
        /\ outcome \in {"ValueError", "IndexError"}
        /\ result = NoTable

\* C7: once iterate_pagerank has run, the corpus is the original one with every
\* dead end given every corpus page as out-link and every other page unchanged;
\* the dead-end loop changes nothing on it, so it is the same after a second run.
C7_NormalizeIdempotent ==
    runs >= 1 =>
        /\ corpus = [p \in Pages(orig) |->
                        IF orig[p] = {} THEN Pages(orig) ELSE orig[p]]
        /\ Normalize(corpus) = corpus

\* iterate_pagerank has run twice on a corpus with a dead end
C7_Witness ==
    /\ runs = 2
    /\ corpus # orig

\* |new rank - old rank| < 0.001 for every page, r the old and nr the new table
AllBelowThreshold(r, nr) ==
    \A p \in Pages(corpus) :
        LET old == BigMul(r.num[p], Scale(corpus, damping))
            diff == IF BigLess(old, nr.num[p])
                    THEN BigSub(nr.num[p], old)
                    ELSE BigSub(old, nr.num[p])
        IN BigLess(BigMul(diff, 1000), nr.den)

\* C8: every pass of the loop replaces the table by the recurrence applied to the
\* previous table; the call returns the new table in that pass if every page's
\* rank moved by less than 0.001, and stays in the loop otherwise (a move of
\* exactly 0.001 included); a call that returned made at least one pass.
C8_StopsAtFirstPass ==
    /\ [][(pc = "iterate" /\ iters' = iters + 1) =>
            /\ ranks' = NewRanks(corpus, ranks, damping)
            /\ IF AllBelowThreshold(ranks, ranks')
               THEN pc' = "idle" /\ outcome' = "returned" /\ result' = ranks'
               ELSE pc' = "iterate" /\ outcome' = "none" /\ result' = NoTable]_vars
    /\ []((callee = "iterate" /\ outcome = "returned") => iters >= 1)

\* with d = 1/250 on a two-page corpus with a dead end the first pass moves a
\* rank by exactly 0.001: the call returned in the second pass
C8_Witness ==
    /\ callee = "iterate"
    /\ outcome = "returned"
    /\ damping = <<1, 250>>
    /\ Cardinality(Pages(corpus)) = 2
    /\ corpus # orig
    /\ iters = 2

\* C9: for every page, transition_model gives the same distribution on the
\* normalized corpus as on the original one, and so on the corpus object
\* whatever calls of iterate_pagerank came before.
C9_SameChain ==
    \A p \in Pages(orig) :
        /\ transition_model(Normalize(orig), p, damping)
             = transition_model(orig, p, damping)
        /\ transition_model(corpus, p, damping)
             = transition_model(orig, p, damping)

\* the sampler has stepped on a corpus that iterate_pagerank normalized
C9_Witness ==
    /\ runs >= 1
    /\ corpus # orig
    /\ callee = "sample"
    /\ visits >= 2
    /\ distribution # NoTable

\* C10: result() ends in ValueError for every action with a row or column index
\* outside 0 .. 2 and for every action on an occupied cell; for any other action
\* it returns a board that differs from the input in that cell only, which holds
\* the mark of player(input), and leaves the input board as it was.
C10_ResultContract ==
    t_outcome # "none" =>
        LET row == t_action[1]
            col == t_action[2]
        IN IF row \notin 0 .. 2 \/ col \notin 0 .. 2
           THEN t_outcome = "ValueError"
           ELSE IF t_input[row][col] # EMPTY
           THEN t_outcome = "ValueError"
           ELSE /\ t_outcome = "ok"
                /\ board = t_input
                /\ t_result[row][col] = player(t_input)
                /\ \A i \in 0 .. 2, j \in 0 .. 2 :
                     <<i, j>> # <<row, col>> => t_result[i][j] = t_input[i][j]

=============================================================================
